---- MODULE Spec2Model ----
(***************************************************************************)
(* xfetcher: download a file over HTTP, extract ZIP archives (nested ones  *)
(* included) and roll back on failure.                                     *)
(*                                                                         *)
(* Strings are sequences of one-character strings, so that str.startswith, *)
(* "in", str.lower, os.path.basename and Path.stem are computed character  *)
(* by character.  A percent-encoded triple of a URL ("%2E", "%2F", "%20")  *)
(* is one token: unquote consumes it whole.                                *)
(*                                                                         *)
(* The disk is a function from resolved absolute paths (sequences of       *)
(* names) to nodes.  The process runs in the directory cwd; the session    *)
(* directory save_dir is a path relative to it.                            *)
(***************************************************************************)
EXTENDS Integers, Sequences, FiniteSets, TLC

VARIABLES
    fs,        \* the disk: resolved path -> node
    keep_zip,  \* Downloader.keep_zip
    dl,        \* the activation of download_file
    ex,        \* the activations of extract_zip, innermost last
    dae,       \* the activation of download_and_extract
    outcome,   \* what the last operation handed to the client
    started,   \* the client has started the session's operation
    budget,    \* archive entries still to be listed in this behaviour
    pure       \* the application of one of the pure functions

vars == <<fs, keep_zip, dl, ex, dae, outcome, started, budget, pure>>

-----------------------------------------------------------------------------
(* Bounds of the model.                                                    *)

\* entries that the archives opened in one behaviour may list, in total
MaxEntries == 3
\* chunks that a response body may deliver
MaxChunks == 2
\* tokens of a URL after "http://h"
MaxUrlLen == 4
\* characters of a path given to the validator
MaxPathLen == 4

-----------------------------------------------------------------------------
(* Strings.                                                                *)

RECURSIVE IndexOfFirst(_, _, _)
\* str.find from position i (1-based); 0 when absent
IndexOfFirst(s, cs, i) ==
    IF i > Len(s) THEN 0
    ELSE IF s[i] \in cs THEN i
    ELSE IndexOfFirst(s, cs, i + 1)

RECURSIVE IndexOfLast(_, _, _)
\* str.rfind searching down from position i (1-based); 0 when absent
IndexOfLast(s, cs, i) ==
    IF i < 1 THEN 0
    ELSE IF s[i] \in cs THEN i
    ELSE IndexOfLast(s, cs, i - 1)

StartsWith(s, p) == Len(s) >= Len(p) /\ SubSeq(s, 1, Len(p)) = p

EndsWith(s, p) == Len(s) >= Len(p) /\ SubSeq(s, Len(s) - Len(p) + 1, Len(s)) = p

\* "p in s" for strings
Contains(s, p) == \E i \in 1..(Len(s) - Len(p) + 1) : SubSeq(s, i, i + Len(p) - 1) = p

LowerChar(c) ==
    CASE c = "Z" -> "z"
      [] c = "I" -> "i"
      [] c = "P" -> "p"
      [] c = "N" -> "n"
      [] c = "Y" -> "y"
      [] OTHER -> c

\* str.lower
Lower(s) == [i \in 1..Len(s) |-> LowerChar(s[i])]

RECURSIVE SplitOn(_, _)
\* str.split(sep) for a one-character separator
SplitOn(s, sep) ==
    LET i == IndexOfFirst(s, {sep}, 1)
    IN  IF i = 0 THEN <<s>>
        ELSE <<SubSeq(s, 1, i - 1)>> \o SplitOn(SubSeq(s, i + 1, Len(s)), sep)

RECURSIVE SelectSegs(_)
SelectSegs(segs) ==
    IF segs = <<>> THEN <<>>
    ELSE IF Head(segs) \in {<<>>, <<".">>} THEN SelectSegs(Tail(segs))
    ELSE <<Head(segs)>> \o SelectSegs(Tail(segs))

-----------------------------------------------------------------------------
(* pathlib.                                                                *)

\* Path(s): the root, when the string starts with a slash, and the segments
\* that are neither empty nor "."
PathOf(s) ==
    [abs |-> Len(s) > 0 /\ s[1] = "/", segs |-> SelectSegs(SplitOn(s, "/"))]

\* Path.parts
Parts(p) == (IF p.abs THEN << <<"/">> >> ELSE <<>>) \o p.segs

\* p / q
Join(p, q) == IF q.abs THEN q ELSE [abs |-> p.abs, segs |-> p.segs \o q.segs]

\* Path.name
NameOf(p) == IF p.segs = <<>> THEN <<>> ELSE p.segs[Len(p.segs)]

\* Path.stem
Stem(p) ==
    LET name == NameOf(p)
        i == IndexOfLast(name, {"."}, Len(name))
    IN  IF 1 < i /\ i < Len(name) THEN SubSeq(name, 1, i - 1) ELSE name

\* the directory the process runs in
cwd == << <<"w">> >>

RECURSIVE Walk(_, _)
\* the operating system's resolution of the segments from a directory:
\* ".." steps to the parent (the root is its own parent)
Walk(at, segs) ==
    IF segs = <<>> THEN at
    ELSE IF Head(segs) = <<".", ".">>
         THEN Walk(IF at = <<>> THEN <<>> ELSE SubSeq(at, 1, Len(at) - 1), Tail(segs))
         ELSE Walk(at \o <<Head(segs)>>, Tail(segs))

\* the absolute location a Path names
Resolve(p) == Walk(IF p.abs THEN <<>> ELSE cwd, p.segs)

\* Path("")
NoPath == [abs |-> FALSE, segs |-> <<>>]

\* a is d or lies below d
Within(d, a) == Len(a) >= Len(d) /\ SubSeq(a, 1, Len(d)) = d

\* a lies below d
StrictlyWithin(d, a) == Within(d, a) /\ Len(a) > Len(d)

-----------------------------------------------------------------------------
(* utils.get_filename_from_url                                             *)

\* urlparse(url).path of "http://h" followed by the tokens of tail: the
\* network location runs to the first of / ? #, the path to the first of ? #
UrlPath(tail) ==
    LET a == IndexOfFirst(tail, {"/", "?", "#"}, 1)
        rest == IF a = 0 THEN <<>> ELSE SubSeq(tail, a, Len(tail))
        b == IndexOfFirst(rest, {"?", "#"}, 1)
    IN  IF b = 0 THEN rest ELSE SubSeq(rest, 1, b - 1)

\* os.path.basename
Basename(s) == SubSeq(s, IndexOfLast(s, {"/"}, Len(s)) + 1, Len(s))

UnquoteToken(t) ==
    CASE t = "%2E" -> "."
      [] t = "%2F" -> "/"
      [] t = "%20" -> " "
      [] OTHER -> t

\* urllib.parse.unquote
Unquote(s) == [i \in 1..Len(s) |-> UnquoteToken(s[i])]

default_filename ==
    <<"d","o","w","n","l","o","a","d","e","d","_","f","i","l","e",".","z","i","p">>

get_filename_from_url(url) ==
    LET decoded_filename == Unquote(Basename(UrlPath(url)))
    IN  IF decoded_filename # <<>> THEN decoded_filename ELSE default_filename

-----------------------------------------------------------------------------
(* Downloader._is_safe_path                                                *)

\* the test without the parent-directory marker
UnsafePart_no_dotdot(part) ==
    \/ StartsWith(part, <<"\\">>)
    \/ StartsWith(part, <<"/">>)
    \/ Contains(part, <<":">>)

UnsafePart(part) ==
    \/ StartsWith(part, <<"\\">>)
    \/ StartsWith(part, <<"/">>)
    \/ Contains(part, <<".", ".">>)
    \/ Contains(part, <<":">>)

\* the test applied to the first part only
is_safe_path_head(path) ==
    LET parts == Parts(PathOf(path))
    IN  parts = <<>> \/ ~ UnsafePart(parts[1])

is_safe_path(path) ==
    LET parts == Parts(PathOf(path))
    IN  ~ \E i \in 1..Len(parts) : UnsafePart(parts[i])

-----------------------------------------------------------------------------
(* Downloader._humanize_size                                               *)

Units == <<"B", "KB", "MB", "GB">>

KiB == 1024

RECURSIVE Pow1024(_)
Pow1024(k) == IF k = 0 THEN 1 ELSE KiB * Pow1024(k - 1)

\* the text that format(x, ".1f") prints for the integer x
FormatInt(x) == [whole |-> x, tenth |-> 0]

\* for unit in [...]: if current_size < 1024: return f"{size:.1f}{unit}";
\* current_size /= 1024.  Before the k-th test current_size is
\* size / 1024^(k-1); the number formatted is size
RECURSIVE HumanizeLoop(_, _)
HumanizeLoop(size, k) ==
    IF k > Len(Units) THEN [num |-> FormatInt(size), unit |-> "TB"]
    ELSE IF size \div Pow1024(k - 1) < KiB
         THEN [num |-> FormatInt(size), unit |-> Units[k]]
         ELSE HumanizeLoop(size, k + 1)

humanize_size(size) == HumanizeLoop(size, 1)

-----------------------------------------------------------------------------
(* Errors.                                                                 *)

NoExc == [kind |-> "none", paths |-> <<>>, cause |-> "none"]

Exc(kind) == [kind |-> kind, paths |-> <<>>, cause |-> "none"]

\* raise <kind> from e
ExcFrom(kind, e) == [kind |-> kind, paths |-> <<>>, cause |-> e.kind]

-----------------------------------------------------------------------------
(* The disk.                                                               *)

\* tag: "old" was there before the session, "download" was written by
\* download_file, "extract" was created by extract_zip's mkdir, "member" was
\* written by ZipFile.extract.  size: the bytes of a file.  zip and names:
\* what the bytes are, settled the first time they are read.
DirNode(tag) == [kind |-> "dir", tag |-> tag, size |-> 0, zip |-> "no", names |-> <<>>]

FileNode(tag, size) ==
    [kind |-> "file", tag |-> tag, size |-> size, zip |-> "unknown", names |-> <<>>]

Exists(f, a) == a \in DOMAIN f

IsFile(f, a) == a \in DOMAIN f /\ f[a].kind = "file"

IsDir(f, a) == a \in DOMAIN f /\ f[a].kind = "dir"

Put(f, a, node) == [x \in DOMAIN f \cup {a} |-> IF x = a THEN node ELSE f[x]]

Remove(f, gone) == [x \in DOMAIN f \ gone |-> f[x]]

Parent(a) == SubSeq(a, 1, Len(a) - 1)

Prefixes(a) == {SubSeq(a, 1, k) : k \in 0..Len(a)}

\* os.makedirs(a, exist_ok=True) can succeed: nothing on the way is a file
CanMakeDirs(f, a) == \A x \in Prefixes(a) : ~ IsFile(f, x)

MakeDirs(f, a, tag) ==
    [x \in DOMAIN f \cup Prefixes(a) |-> IF x \in DOMAIN f THEN f[x] ELSE DirNode(tag)]

\* Path.unlink(missing_ok=True): a file goes, nothing stays nothing, and a
\* directory is an error
Unlink(f, a) == IF IsFile(f, a) THEN Remove(f, {a}) ELSE f

UnlinkExc(f, a, exc) == IF IsDir(f, a) THEN Exc("IsADirectoryError") ELSE exc

\* shutil.rmtree(a, ignore_errors=True): a directory goes with all below
\* it; anything else is an error, which is ignored
RmTree(f, a) == IF IsDir(f, a) THEN Remove(f, {x \in DOMAIN f : Within(a, x)}) ELSE f

-----------------------------------------------------------------------------
(* The session and its surroundings.                                       *)

\* Downloader.save_dir, as given to the constructor
save_dir == PathOf(<<"s">>)

ZIP == <<".", "z", "i", "p">>

\* the inputs of the client: URLs (the tokens after "http://h") ...
Urls ==
    { <<"/", "f">> \o ZIP,
      <<"/", "f">> }

\* ... filenames (the empty one stands for None too: "if not filename") ...
Filenames ==
    { <<>>, <<"f">> \o ZIP, <<"m", "/", "f">> \o ZIP, <<"f", ".", "Z", "I", "P">> }

\* ... and optional paths: <<>> is None, <<p>> is the path p
ExtractPaths == { <<>>, << <<"s", "/", "o">> >> }

ZipPaths == { <<"s", "/", "f">> \o ZIP, <<"s", "/", "p">> \o ZIP }

\* what a server may put in the content-length header
OneGiB == KiB * KiB * KiB

ContentLengths == {0, KiB, OneGiB, OneGiB + 1}

\* what the operator may type at the prompt
Answers == { <<"y">>, <<"Y">>, <<"n">>, <<>>, <<"y", "e", "s">> }

\* the classes of requests' transport errors
TransportErrors == {"requests.ConnectionError", "requests.Timeout", "requests.RequestException"}

-----------------------------------------------------------------------------
(* Downloader.download_file                                                *)

dl_idle ==
    [pc |-> "idle", caller |-> "client", url |-> <<>>, filename |-> <<>>,
     file_path |-> NoPath, response |-> "unbound", closed |-> FALSE,
     total_size |-> 0, chunks |-> 0, written |-> 0,
     found |-> FALSE, requested |-> FALSE, opened |-> FALSE, prompted |-> FALSE,
     answer |-> <<>>, chunk_size |-> 8192,
     fault |-> "none", at |-> "none", exc |-> NoExc]

\* zip_path, extract_dir: <<>> while the local is unbound, <<p>> once bound;
\* names: what namelist() gave the call of extract_zip that returned
dae_idle ==
    [pc |-> "idle", url |-> <<>>, extract_path |-> <<>>,
     zip_path |-> <<>>, extract_dir |-> <<>>, formatted_files |-> <<>>,
     names |-> <<>>, exc |-> NoExc]

NoOutcome == [op |-> "none", status |-> "none", exc |-> NoExc, value |-> NoPath]

Idle ==
    /\ dl.pc \in {"idle", "returned", "raised"}
    /\ ex = <<>>
    /\ dae.pc \in {"idle", "returned", "raised"}
    /\ pure.fn = "none"

\* lines 119-122: the filename and the destination path
destination(url, filename) ==
    LET name == IF filename = <<>> THEN get_filename_from_url(url) ELSE filename
    IN  Join(save_dir, PathOf(name))

\* the handler that catches a transport error, and what it raises
Mapped(fault) ==
    CASE fault = "requests.ConnectionError" -> "ConnectionError"
      [] fault = "requests.Timeout" -> "TimeoutError"
      [] OTHER -> "Exception"

\* the default of the parameter chunk_size; every chunk is a full one
chunk_size == 8192

\* the chunk sizes a client may pass
ChunkSizes == {chunk_size, 0, -1}

\* the end of download_file: the value or the error goes to the caller
DlFinish(d) ==
    IF d.caller = "client"
    THEN /\ dl' = d
         /\ outcome' = [op |-> "download_file",
                        status |-> d.pc, exc |-> d.exc, value |-> d.file_path]
         /\ dae' = dae
    ELSE /\ dl' = dl_idle
         /\ outcome' = outcome
         /\ dae' = IF d.pc = "returned"
                   THEN [dae EXCEPT !.pc = "extract", !.zip_path = <<d.file_path>>]
                   ELSE [dae EXCEPT !.pc = "handler", !.exc = d.exc]

call_download_file ==
    /\ Idle /\ ~ started
    /\ \E url \in Urls, filename \in Filenames, size \in ChunkSizes :
         dl' = [dl_idle EXCEPT !.pc = "start", !.url = url, !.filename = filename,
                               !.chunk_size = size]
    /\ started' = TRUE
    /\ dae' = dae_idle /\ outcome' = NoOutcome
    /\ UNCHANGED <<fs, keep_zip, ex, budget, pure>>

\* lines 119-122 without the test of lines 124-125
download_file_start_overwrite ==
    /\ dl.pc = "start"
    /\ LET file_path == destination(dl.url, dl.filename)
       IN  dl' = [dl EXCEPT !.file_path = file_path, !.pc = "get",
                            !.found = Exists(fs, Resolve(file_path))]
    /\ UNCHANGED <<fs, keep_zip, ex, dae, outcome, started, budget, pure>>

\* lines 119-125
download_file_start ==
    /\ dl.pc = "start"
    /\ LET file_path == destination(dl.url, dl.filename)
           d == [dl EXCEPT !.file_path = file_path,
                           !.found = Exists(fs, Resolve(file_path))]
       IN  IF Exists(fs, Resolve(file_path))
           THEN DlFinish([d EXCEPT !.pc = "raised", !.exc = Exc("FileExistsError")])
           ELSE /\ dl' = [d EXCEPT !.pc = "get"]
                /\ UNCHANGED <<dae, outcome>>
    /\ UNCHANGED <<fs, keep_zip, ex, started, budget, pure>>

\* line 128: requests.get answers, or fails
download_file_get ==
    /\ dl.pc = "get"
    /\ \/ \E total \in ContentLengths, chunks \in 0..MaxChunks :
            dl' = [dl EXCEPT !.pc = "status", !.requested = TRUE,
                             !.response = "Response",
                             !.total_size = total, !.chunks = chunks]
       \/ \E fault \in TransportErrors :
            dl' = [dl EXCEPT !.pc = "except", !.requested = TRUE,
                             !.fault = fault, !.at = "get"]
    /\ UNCHANGED <<fs, keep_zip, ex, dae, outcome, started, budget, pure>>

\* line 129: raise_for_status
download_file_status ==
    /\ dl.pc = "status"
    /\ \/ dl' = [dl EXCEPT !.pc = "size"]
       \/ dl' = [dl EXCEPT !.pc = "except", !.fault = "requests.HTTPError", !.at = "status"]
    /\ UNCHANGED <<fs, keep_zip, ex, dae, outcome, started, budget, pure>>

\* lines 131-139: the size gate; input() rebinds response to the answer
download_file_size ==
    /\ dl.pc = "size"
    /\ IF dl.total_size > OneGiB
       THEN \E answer \in Answers :
              LET d == [dl EXCEPT !.prompted = TRUE, !.answer = answer, !.response = "str"]
              IN  dl' = IF Lower(answer) # <<"y">>
                        THEN [d EXCEPT !.pc = "finally", !.exc = Exc("DownloadCancelled")]
                        ELSE [d EXCEPT !.pc = "open"]
       ELSE dl' = [dl EXCEPT !.pc = "open"]
    /\ UNCHANGED <<fs, keep_zip, ex, dae, outcome, started, budget, pure>>

\* line 141: open(file_path, "wb")
download_file_open ==
    /\ dl.pc = "open"
    /\ IF IsDir(fs, Parent(Resolve(dl.file_path)))
       THEN /\ fs' = Put(fs, Resolve(dl.file_path), FileNode("download", 0))
            /\ dl' = [dl EXCEPT !.pc = "stream", !.opened = TRUE]
       ELSE /\ fs' = fs
            /\ dl' = [dl EXCEPT !.pc = "finally", !.exc = Exc("FileNotFoundError")]
    /\ UNCHANGED <<keep_zip, ex, dae, outcome, started, budget, pure>>

\* lines 148-150: one chunk arrives and is written
download_file_chunk ==
    /\ dl.pc = "stream" /\ dl.response = "Response" /\ dl.written < dl.chunks
    /\ dl.chunk_size > 0
    /\ fs' = Put(fs, Resolve(dl.file_path),
                  FileNode("download", (dl.written + 1) * dl.chunk_size))
    /\ dl' = [dl EXCEPT !.written = dl.written + 1]
    /\ UNCHANGED <<keep_zip, ex, dae, outcome, started, budget, pure>>

\* line 148: the body ends; with a chunk size that is not positive the
\* iterator may end without a chunk
download_file_body_end ==
    /\ dl.pc = "stream" /\ dl.response = "Response"
    /\ dl.written = dl.chunks \/ dl.chunk_size <= 0
    /\ dl' = [dl EXCEPT !.pc = "finally"]
    /\ UNCHANGED <<fs, keep_zip, ex, dae, outcome, started, budget, pure>>

\* line 148: the transport fails while the body is read
download_file_stream_fault ==
    /\ dl.pc = "stream" /\ dl.response = "Response"
    /\ \E fault \in TransportErrors :
         dl' = [dl EXCEPT !.pc = "except", !.fault = fault, !.at = "stream"]
    /\ UNCHANGED <<fs, keep_zip, ex, dae, outcome, started, budget, pure>>

\* line 148: chunk_size goes to iter_content as it came; the library may
\* refuse one that is not positive
download_file_stream_chunk_size ==
    /\ dl.pc = "stream" /\ dl.response = "Response" /\ dl.chunk_size <= 0
    /\ dl' = [dl EXCEPT !.pc = "finally", !.exc = Exc("ValueError")]
    /\ UNCHANGED <<fs, keep_zip, ex, dae, outcome, started, budget, pure>>

\* line 148 after the prompt: response is the answer, a str without
\* iter_content
download_file_stream_str ==
    /\ dl.pc = "stream" /\ dl.response = "str"
    /\ dl' = [dl EXCEPT !.pc = "finally", !.exc = Exc("AttributeError")]
    /\ UNCHANGED <<fs, keep_zip, ex, dae, outcome, started, budget, pure>>

\* line 149: f.write fails (the disk is full)
download_file_write_error ==
    /\ dl.pc = "stream" /\ dl.response = "Response" /\ dl.written < dl.chunks
    /\ dl.chunk_size > 0
    /\ dl' = [dl EXCEPT !.pc = "finally", !.exc = Exc("OSError")]
    /\ UNCHANGED <<fs, keep_zip, ex, dae, outcome, started, budget, pure>>

\* lines 152-165 with a timeout handler that leaves the file
download_file_except_keep ==
    /\ dl.pc = "except"
    /\ fs' = IF Exists(fs, Resolve(dl.file_path)) /\ dl.fault # "requests.Timeout"
             THEN Unlink(fs, Resolve(dl.file_path)) ELSE fs
    /\ dl' = [dl EXCEPT !.pc = "finally", !.exc = Exc(Mapped(dl.fault))]
    /\ UNCHANGED <<keep_zip, ex, dae, outcome, started, budget, pure>>

\* lines 152-165: the three handlers
download_file_except ==
    /\ dl.pc = "except"
    /\ fs' = IF Exists(fs, Resolve(dl.file_path))
             THEN Unlink(fs, Resolve(dl.file_path)) ELSE fs
    /\ dl' = [dl EXCEPT !.pc = "finally", !.exc = Exc(Mapped(dl.fault))]
    /\ UNCHANGED <<keep_zip, ex, dae, outcome, started, budget, pure>>

\* lines 166-169: response.close(), then the return or the error in flight
download_file_finally ==
    /\ dl.pc = "finally"
    /\ LET d == CASE dl.response = "unbound" -> [dl EXCEPT !.exc = Exc("UnboundLocalError")]
                  [] dl.response = "str" -> [dl EXCEPT !.exc = Exc("AttributeError")]
                  [] OTHER -> [dl EXCEPT !.closed = TRUE]
       IN  DlFinish([d EXCEPT !.pc = IF d.exc = NoExc THEN "returned" ELSE "raised"])
    /\ UNCHANGED <<fs, keep_zip, ex, started, budget, pure>>

download_file ==
    \/ download_file_start
    \/ download_file_get
    \/ download_file_status
    \/ download_file_size
    \/ download_file_open
    \/ download_file_chunk
    \/ download_file_body_end
    \/ download_file_stream_fault
    \/ download_file_stream_chunk_size
    \/ download_file_stream_str
    \/ download_file_write_error
    \/ download_file_except
    \/ download_file_finally

-----------------------------------------------------------------------------
(* Downloader.extract_zip                                                  *)

\* the entry names an archive may list
EntryNames ==
    { <<"a">>,
      <<"d", "/", "b">>,
      <<".">>,
      <<".", ".", "/", "e">>,
      <<"d", "/", "N", ".", "Z", "I", "P">> }

\* the lists of at most b entry names
NameLists(b) == UNION {[1..n -> EntryNames] : n \in 0..b}

\* a check that stops at the first name the validator rejects
RECURSIVE unsafe_paths_first(_)
unsafe_paths_first(names) ==
    IF names = <<>> THEN <<>>
    ELSE IF is_safe_path(Head(names)) THEN unsafe_paths_first(Tail(names))
    ELSE <<Head(names)>>

\* lines 203-205: the names the validator rejects, in the order of the list
RECURSIVE unsafe_paths(_)
unsafe_paths(names) ==
    IF names = <<>> THEN <<>>
    ELSE (IF is_safe_path(Head(names)) THEN <<>> ELSE <<Head(names)>>)
         \o unsafe_paths(Tail(names))

\* the bytes of an extracted file
MemberSize == 2 * KiB

\* ZipFile.extract(member, extract_path): the entry goes to the entry path
\* joined under the root, its parent directories are made on the way; an
\* entry whose name ends in a slash is a directory
ZipExtract(f, member, extract_path) ==
    LET target == Resolve(Join(extract_path, PathOf(member)))
    IN  IF EndsWith(member, <<"/">>)
        THEN IF CanMakeDirs(f, target)
             THEN [exc |-> NoExc, fs |-> MakeDirs(f, target, "member")]
             ELSE [exc |-> Exc("FileExistsError"), fs |-> f]
        ELSE IF ~ CanMakeDirs(f, Parent(target))
             THEN [exc |-> Exc("FileExistsError"), fs |-> f]
             ELSE IF IsDir(f, target)
                  THEN [exc |-> Exc("IsADirectoryError"),
                        fs |-> MakeDirs(f, Parent(target), "member")]
                  ELSE [exc |-> NoExc,
                        fs |-> Put(MakeDirs(f, Parent(target), "member"),
                                   target, FileNode("member", MemberSize))]

\* made: line 199 created the directory; done: the members this call has
\* extracted; listed: the archive has been opened and its names read
Frame(caller, zip_path, extract_arg) ==
    [pc |-> "validate", caller |-> caller,
     zip_path |-> zip_path, extract_arg |-> extract_arg, extract_path |-> NoPath,
     names |-> <<>>, listed |-> FALSE, i |-> 1, made |-> FALSE, done |-> 0,
     nested_path |-> NoPath, nested_extract_path |-> NoPath, exc |-> NoExc]

\* Path(x) of an optional string
OptPath(opt) == IF opt = <<>> THEN <<>> ELSE <<PathOf(opt[1])>>

Top == ex[Len(ex)]

SetTop(frame) == [ex EXCEPT ![Len(ex)] = frame]

call_extract_zip ==
    /\ Idle /\ ~ started
    /\ \E zip_path \in ZipPaths, extract_path \in ExtractPaths :
         ex' = << Frame("client", PathOf(zip_path), OptPath(extract_path)) >>
    /\ started' = TRUE
    /\ dl' = dl_idle /\ dae' = dae_idle /\ outcome' = NoOutcome
    /\ UNCHANGED <<fs, keep_zip, budget, pure>>

\* lines 190-192: zipfile.is_zipfile.  What the bytes of a file are is
\* settled when they are first read; a file of no bytes is no archive
extract_zip_validate ==
    /\ ex # <<>> /\ Top.pc = "validate"
    /\ LET a == Resolve(Top.zip_path)
           bad == [Top EXCEPT !.pc = "raising", !.exc = Exc("ValueError")]
       IN  IF ~ IsFile(fs, a) \/ fs[a].zip = "no" \/ fs[a].size = 0
           THEN ex' = SetTop(bad) /\ UNCHANGED <<fs, budget>>
           ELSE IF fs[a].zip = "yes"
           THEN ex' = SetTop([Top EXCEPT !.pc = "mkdir"]) /\ UNCHANGED <<fs, budget>>
           ELSE \/ /\ ex' = SetTop(bad)
                   /\ fs' = [fs EXCEPT ![a].zip = "no"]
                   /\ budget' = budget
                \/ \E names \in NameLists(budget) :
                     /\ ex' = SetTop([Top EXCEPT !.pc = "mkdir"])
                     /\ fs' = [fs EXCEPT ![a].zip = "yes", ![a].names = names]
                     /\ budget' = budget - Len(names)
    /\ UNCHANGED <<keep_zip, dl, dae, outcome, started, pure>>

\* lines 194-199: the default directory, and mkdir(parents=True,
\* exist_ok=True)
extract_zip_mkdir ==
    /\ ex # <<>> /\ Top.pc = "mkdir"
    /\ LET extract_path ==
               IF Top.extract_arg = <<>>
               THEN Join(save_dir, PathOf(Stem(Top.zip_path)))
               ELSE Top.extract_arg[1]
           a == Resolve(extract_path)
           t == [Top EXCEPT !.extract_path = extract_path]
       IN  IF CanMakeDirs(fs, a)
           THEN /\ fs' = MakeDirs(fs, a, "extract")
                /\ ex' = SetTop([t EXCEPT !.pc = "check", !.made = ~ Exists(fs, a)])
           ELSE /\ fs' = fs
                /\ ex' = SetTop([t EXCEPT !.pc = "raising", !.exc = Exc("FileExistsError")])
    /\ UNCHANGED <<keep_zip, dl, dae, outcome, started, budget, pure>>

\* lines 201-212 without the check of lines 203-207
extract_zip_check_none ==
    /\ ex # <<>> /\ Top.pc = "check"
    /\ ex' = SetTop([Top EXCEPT !.names = fs[Resolve(Top.zip_path)].names,
                                !.listed = TRUE, !.pc = "extract"])
    /\ UNCHANGED <<fs, keep_zip, dl, dae, outcome, started, budget, pure>>

\* lines 201-207: every name is checked before any entry is extracted
extract_zip_check ==
    /\ ex # <<>> /\ Top.pc = "check"
    /\ LET names == fs[Resolve(Top.zip_path)].names
           t == [Top EXCEPT !.names = names, !.listed = TRUE]
       IN  ex' = SetTop(IF unsafe_paths(names) # <<>>
                        THEN [t EXCEPT !.pc = "raising",
                                       !.exc = [Exc("ValueError") EXCEPT
                                                  !.paths = unsafe_paths(names)]]
                        ELSE [t EXCEPT !.pc = "extract"])
    /\ UNCHANGED <<fs, keep_zip, dl, dae, outcome, started, budget, pure>>

\* lines 212-217: one member is extracted
extract_zip_member ==
    /\ ex # <<>> /\ Top.pc = "extract" /\ Top.i <= Len(Top.names)
    /\ LET member == Top.names[Top.i]
           r == ZipExtract(fs, member, Top.extract_path)
       IN  /\ fs' = r.fs
           /\ ex' = SetTop(
                IF r.exc # NoExc THEN [Top EXCEPT !.pc = "raising", !.exc = r.exc]
                ELSE IF EndsWith(Lower(member), ZIP)
                THEN [Top EXCEPT !.pc = "nested", !.done = Top.done + 1]
                ELSE [Top EXCEPT !.i = Top.i + 1, !.done = Top.done + 1])
    /\ UNCHANGED <<keep_zip, dl, dae, outcome, started, budget, pure>>

\* lines 218-221: the call of extract_zip on the nested archive
extract_zip_nested ==
    /\ ex # <<>> /\ Top.pc = "nested"
    /\ LET member == Top.names[Top.i]
           nested_path == Join(Top.extract_path, PathOf(member))
           nested_extract_path == Join(Top.extract_path, PathOf(Stem(PathOf(member))))
       IN  ex' = SetTop([Top EXCEPT !.pc = "wait", !.nested_path = nested_path,
                                    !.nested_extract_path = nested_extract_path])
                 \o << Frame("frame", nested_path, <<nested_extract_path>>) >>
    /\ UNCHANGED <<fs, keep_zip, dl, dae, outcome, started, budget, pure>>

\* lines 222-224 as an else clause: only after the nested call returned
extract_zip_nested_else ==
    /\ ex # <<>> /\ Top.pc = "finally"
    /\ fs' = IF keep_zip \/ Top.exc # NoExc THEN fs ELSE Unlink(fs, Resolve(Top.nested_path))
    /\ ex' = SetTop(IF Top.exc # NoExc
                     THEN [Top EXCEPT !.pc = "raising"]
                     ELSE [Top EXCEPT !.pc = "extract", !.i = Top.i + 1])
    /\ UNCHANGED <<keep_zip, dl, dae, outcome, started, budget, pure>>

\* lines 222-224: finally, after the nested call returned or raised
extract_zip_nested_finally ==
    /\ ex # <<>> /\ Top.pc = "finally"
    /\ fs' = IF keep_zip THEN fs ELSE Unlink(fs, Resolve(Top.nested_path))
    /\ LET exc == IF keep_zip THEN Top.exc
                  ELSE UnlinkExc(fs, Resolve(Top.nested_path), Top.exc)
       IN  ex' = SetTop(IF exc # NoExc
                        THEN [Top EXCEPT !.pc = "raising", !.exc = exc]
                        ELSE [Top EXCEPT !.pc = "extract", !.i = Top.i + 1])
    /\ UNCHANGED <<keep_zip, dl, dae, outcome, started, budget, pure>>

\* lines 226-227 with the archive left in place
extract_zip_unlink_keep ==
    /\ ex # <<>> /\ Top.pc = "extract" /\ Top.i > Len(Top.names)
    /\ ex' = SetTop([Top EXCEPT !.pc = "returning"])
    /\ UNCHANGED <<fs, keep_zip, dl, dae, outcome, started, budget, pure>>

\* lines 226-227: the archive itself is removed
extract_zip_unlink ==
    /\ ex # <<>> /\ Top.pc = "extract" /\ Top.i > Len(Top.names)
    /\ fs' = IF keep_zip THEN fs ELSE Unlink(fs, Resolve(Top.zip_path))
    /\ LET exc == IF keep_zip THEN NoExc
                  ELSE UnlinkExc(fs, Resolve(Top.zip_path), NoExc)
       IN  ex' = SetTop(IF exc # NoExc
                        THEN [Top EXCEPT !.pc = "raising", !.exc = exc]
                        ELSE [Top EXCEPT !.pc = "returning"])
    /\ UNCHANGED <<keep_zip, dl, dae, outcome, started, budget, pure>>

\* line 229, or an error leaving the call: the activation ends and its
\* caller goes on
extract_zip_end ==
    /\ ex # <<>> /\ Top.pc \in {"returning", "raising"}
    /\ LET rest == SubSeq(ex, 1, Len(ex) - 1)
       IN  CASE Top.caller = "frame" ->
                  /\ ex' = [rest EXCEPT ![Len(rest)] =
                              [rest[Len(rest)] EXCEPT !.pc = "finally", !.exc = Top.exc]]
                  /\ UNCHANGED <<dae, outcome>>
             [] Top.caller = "dae" ->
                  /\ ex' = rest
                  /\ dae' = IF Top.pc = "returning"
                            THEN [dae EXCEPT !.pc = "list", !.names = Top.names,
                                             !.extract_dir = <<Top.extract_path>>]
                            ELSE [dae EXCEPT !.pc = "handler", !.exc = Top.exc]
                  /\ outcome' = outcome
             [] OTHER ->
                  /\ ex' = rest
                  /\ outcome' = [op |-> "extract_zip",
                                 status |-> IF Top.pc = "returning" THEN "returned" ELSE "raised",
                                 exc |-> Top.exc, value |-> Top.extract_path]
                  /\ dae' = dae
    /\ UNCHANGED <<fs, keep_zip, dl, started, budget, pure>>

extract_zip ==
    \/ extract_zip_validate
    \/ extract_zip_mkdir
    \/ extract_zip_check
    \/ extract_zip_member
    \/ extract_zip_nested
    \/ extract_zip_nested_finally
    \/ extract_zip_unlink
    \/ extract_zip_end

-----------------------------------------------------------------------------
(* Downloader._format_extracted_files and download_and_extract             *)

\* the characters of the model in the order of their code points
CodePoints ==
    <<" ", "%20", "%2E", "%2F", "#", ".", "/", ":", "?",
      "I", "N", "P", "Y", "Z", "\\", "_",
      "a", "b", "d", "e", "f", "i", "l", "m", "n", "o", "p", "s", "w", "y", "z">>

Ord(c) == CHOOSE k \in 1..Len(CodePoints) : CodePoints[k] = c

RECURSIVE StrLess(_, _)
\* s < t for strings
StrLess(s, t) ==
    IF t = <<>> THEN FALSE
    ELSE IF s = <<>> THEN TRUE
    ELSE IF Head(s) # Head(t) THEN Ord(Head(s)) < Ord(Head(t))
    ELSE StrLess(Tail(s), Tail(t))

RECURSIVE PathLess(_, _)
\* p < q for paths: their parts compare as tuples of strings
PathLess(p, q) ==
    IF q = <<>> THEN FALSE
    ELSE IF p = <<>> THEN TRUE
    ELSE IF Head(p) # Head(q) THEN StrLess(Head(p), Head(q))
    ELSE PathLess(Tail(p), Tail(q))

RECURSIVE Sorted(_)
\* sorted(files)
Sorted(paths) ==
    IF paths = {} THEN <<>>
    ELSE LET least == CHOOSE p \in paths : \A q \in paths \ {p} : PathLess(p, q)
         IN  <<least>> \o Sorted(paths \ {least})

\* extract_dir.rglob("*")
RGlob(f, dir) == {x \in DOMAIN f : StrictlyWithin(dir, x)}

\* lines 242-253 without the test of line 244
RECURSIVE FormatLoop_all(_, _, _)
FormatLoop_all(f, base_dir, files) ==
    IF files = <<>> THEN <<>>
    ELSE << [relative_path |-> SubSeq(Head(files), Len(base_dir) + 1, Len(Head(files))),
             size |-> humanize_size(f[Head(files)].size)] >>
         \o FormatLoop_all(f, base_dir, Tail(files))

\* lines 242-253: the files among the sorted paths, with their sizes
RECURSIVE FormatLoop(_, _, _)
FormatLoop(f, base_dir, files) ==
    IF files = <<>> THEN <<>>
    ELSE (IF IsFile(f, Head(files))
          THEN << [relative_path |-> SubSeq(Head(files), Len(base_dir) + 1, Len(Head(files))),
                   size |-> humanize_size(f[Head(files)].size)] >>
          ELSE <<>>)
         \o FormatLoop(f, base_dir, Tail(files))

format_extracted_files(f, base_dir, files) == FormatLoop(f, base_dir, Sorted(files))

DaeFinish(d) ==
    /\ dae' = d
    /\ outcome' = [op |-> "download_and_extract", status |-> d.pc, exc |-> d.exc,
                   value |-> IF d.extract_dir = <<>> THEN NoPath ELSE d.extract_dir[1]]

\* line 270
call_download_and_extract ==
    /\ Idle /\ ~ started
    /\ \E url \in Urls, extract_path \in ExtractPaths :
         /\ dae' = [dae_idle EXCEPT !.pc = "download", !.url = url,
                                    !.extract_path = extract_path]
         /\ dl' = [dl_idle EXCEPT !.pc = "start", !.caller = "dae", !.url = url]
    /\ started' = TRUE
    /\ outcome' = NoOutcome
    /\ UNCHANGED <<fs, keep_zip, ex, budget, pure>>

\* line 273
download_and_extract_extract ==
    /\ dae.pc = "extract"
    /\ ex' = << Frame("dae", dae.zip_path[1], OptPath(dae.extract_path)) >>
    /\ dae' = [dae EXCEPT !.pc = "wait"]
    /\ UNCHANGED <<fs, keep_zip, dl, outcome, started, budget, pure>>

\* lines 276-286: the listing, which the walk of the directory or the
\* printing may fail
download_and_extract_list ==
    /\ dae.pc = "list"
    /\ \/ LET extract_dir == Resolve(dae.extract_dir[1])
              formatted_files ==
                  format_extracted_files(fs, extract_dir, RGlob(fs, extract_dir))
          IN  DaeFinish([dae EXCEPT !.pc = "returned", !.formatted_files = formatted_files])
       \/ /\ dae' = [dae EXCEPT !.pc = "handler", !.exc = Exc("OSError")]
          /\ outcome' = outcome
    /\ UNCHANGED <<fs, keep_zip, dl, ex, started, budget, pure>>

\* lines 288-293, then the error that was caught, as it came
download_and_extract_handler_raw ==
    /\ dae.pc = "handler"
    /\ LET f1 == IF dae.zip_path # <<>> THEN Unlink(fs, Resolve(dae.zip_path[1])) ELSE fs
       IN  fs' = IF dae.extract_dir # <<>>
                 THEN RmTree(f1, Resolve(dae.extract_dir[1])) ELSE f1
    /\ DaeFinish([dae EXCEPT !.pc = "raised"])
    /\ UNCHANGED <<keep_zip, dl, ex, started, budget, pure>>

\* lines 288-294: the rollback, then the wrapped error
download_and_extract_handler ==
    /\ dae.pc = "handler"
    /\ LET zip_bound == dae.zip_path # <<>>
           zip_at == Resolve(dae.zip_path[1])
           f1 == IF zip_bound THEN Unlink(fs, zip_at) ELSE fs
       IN  IF zip_bound /\ IsDir(fs, zip_at)
           THEN /\ fs' = fs
                /\ DaeFinish([dae EXCEPT !.pc = "raised", !.exc = Exc("IsADirectoryError")])
           ELSE /\ fs' = IF dae.extract_dir # <<>>
                         THEN RmTree(f1, Resolve(dae.extract_dir[1])) ELSE f1
                /\ DaeFinish([dae EXCEPT !.pc = "raised",
                                         !.exc = ExcFrom("Exception", dae.exc)])
    /\ UNCHANGED <<keep_zip, dl, ex, started, budget, pure>>

download_and_extract ==
    \/ download_and_extract_extract
    \/ download_and_extract_list
    \/ download_and_extract_handler

-----------------------------------------------------------------------------
(* Downloader.__exit__                                                     *)

\* save_dir.glob("*.zip")
GlobZip(f) ==
    {x \in DOMAIN f : Parent(x) = Resolve(save_dir) /\ EndsWith(x[Len(x)], ZIP)}

\* lines 75-77: every match is unlinked; a match that is a directory stops
\* the loop with an error, after the matches the walk met before it
exit ==
    /\ Idle
    /\ started' = started
    /\ dl' = dl_idle /\ dae' = dae_idle
    /\ IF keep_zip
       THEN /\ fs' = fs
            /\ outcome' = [NoOutcome EXCEPT !.op = "__exit__", !.status = "returned"]
       ELSE LET files == {x \in GlobZip(fs) : IsFile(fs, x)}
            IN  IF files = GlobZip(fs)
                THEN /\ fs' = Remove(fs, files)
                     /\ outcome' = [NoOutcome EXCEPT !.op = "__exit__", !.status = "returned"]
                ELSE \E met \in SUBSET files :
                       /\ fs' = Remove(fs, met)
                       /\ outcome' = [NoOutcome EXCEPT !.op = "__exit__", !.status = "raised",
                                                       !.exc = Exc("IsADirectoryError")]
    /\ UNCHANGED <<keep_zip, ex, budget, pure>>

-----------------------------------------------------------------------------
(* The session: Init is the state after Downloader(save_dir, keep_zip).    *)

pure_idle == [fn |-> "none", arg |-> <<>>, out |-> <<>>, done |-> FALSE]

\* what may lie in the session directory before the first call
OldArchive == Resolve(PathOf(<<"s", "/", "f">> \o ZIP))

OldTree == {Resolve(PathOf(<<"s", "/", "f">>)), Resolve(PathOf(<<"s", "/", "f", "/", "a">>))}

Disk(pre) ==
    [x \in Prefixes(Resolve(save_dir))
           \cup (IF "archive" \in pre THEN {OldArchive} ELSE {})
           \cup (IF "tree" \in pre THEN OldTree ELSE {}) |->
       IF x = OldArchive \/ x = Resolve(PathOf(<<"s", "/", "f", "/", "a">>))
       THEN FileNode("old", KiB)
       ELSE DirNode("old")]

Init ==
    /\ keep_zip \in BOOLEAN
    /\ \E pre \in SUBSET {"archive", "tree"} : fs = Disk(pre)
    /\ dl = dl_idle
    /\ ex = <<>>
    /\ dae = dae_idle
    /\ outcome = NoOutcome
    /\ started = FALSE
    /\ budget = MaxEntries
    /\ pure = pure_idle

Next ==
    \/ call_download_file
    \/ download_file
    \/ call_extract_zip
    \/ extract_zip
    \/ call_download_and_extract
    \/ download_and_extract
    \/ exit

Spec == Init /\ [][Next]_vars


-----------------------------------------------------------------------------
(* The pure functions, applied to inputs drawn from bounded sets.          *)

UrlTokens == {"/", "f", ".", "%2E", "%2F", "?"}

UrlTails == UNION {[1..n -> UrlTokens] : n \in 0..MaxUrlLen}

PathChars == {"a", ".", "/", "\\", ":"}

PathStrings == UNION {[1..n -> PathChars] : n \in 0..MaxPathLen}

Sizes ==
    {0, 1, 512, KiB - 1, KiB, KiB + 1, KiB + 512, 2 * KiB, 10 * KiB,
     KiB * KiB - 1, KiB * KiB, KiB * KiB + 512 * KiB, OneGiB, OneGiB + 512 * KiB * KiB}

InitPure ==
    /\ keep_zip = FALSE
    /\ fs = Disk({})
    /\ dl = dl_idle
    /\ ex = <<>>
    /\ dae = dae_idle
    /\ outcome = NoOutcome
    /\ started = FALSE
    /\ budget = 0
    /\ \/ \E size \in Sizes :
            pure = [pure_idle EXCEPT !.fn = "humanize_size", !.arg = size]
       \/ \E url \in UrlTails :
            pure = [pure_idle EXCEPT !.fn = "destination", !.arg = url]
       \/ \E path \in PathStrings :
            pure = [pure_idle EXCEPT !.fn = "is_safe_path", !.arg = path]

apply_humanize_size ==
    /\ pure.fn = "humanize_size" /\ ~ pure.done
    /\ pure' = [pure EXCEPT !.out = humanize_size(pure.arg), !.done = TRUE]
    /\ UNCHANGED <<fs, keep_zip, dl, ex, dae, outcome, started, budget>>

\* download_file, lines 119-122, with no filename
apply_destination ==
    /\ pure.fn = "destination" /\ ~ pure.done
    /\ pure' = [pure EXCEPT !.out = destination(pure.arg, <<>>), !.done = TRUE]
    /\ UNCHANGED <<fs, keep_zip, dl, ex, dae, outcome, started, budget>>

\* the validator is a static method: its result is a function of the path
apply_is_safe_path ==
    /\ pure.fn = "is_safe_path" /\ ~ pure.done
    /\ pure' = [pure EXCEPT !.out = is_safe_path(pure.arg), !.done = TRUE]
    /\ UNCHANGED <<fs, keep_zip, dl, ex, dae, outcome, started, budget>>

NextPure ==
    \/ apply_humanize_size
    \/ apply_destination
    \/ apply_is_safe_path

SpecPure == InitPure /\ [][NextPure]_vars

-----------------------------------------------------------------------------
(* What the statements below speak of.                                     *)

\* the error is a FileExistsError, or wraps one
FileExistsError_In(e) == e.kind = "FileExistsError" \/ e.cause = "FileExistsError"

\* the names of a list that the validator rejects
Rejected(names) == SelectSeq(names, LAMBDA name : ~ is_safe_path(name))

AllUnits == <<"B", "KB", "MB", "GB", "TB">>

RECURSIVE UnitIndex(_, _)
\* the largest k, at most Len(AllUnits) - 1, with n / 1024^k >= 1
UnitIndex(n, k) ==
    IF n < KiB \/ k = Len(AllUnits) - 1 THEN k ELSE UnitIndex(n \div KiB, k + 1)

RECURSIVE Reduced(_, _)
\* the fraction r / den with the common factors 1024 taken out
Reduced(r, den) ==
    IF den > 1 /\ r % KiB = 0 THEN Reduced(r \div KiB, den \div KiB) ELSE <<r, den>>

\* num / den to one decimal place, ties to even
OneDecimal(num, den) ==
    LET whole == num \div den
        f == Reduced(num % den, den)
        q == (10 * f[1]) \div f[2]
        rr == (10 * f[1]) % f[2]
        t == q + (IF 2 * rr > f[2] \/ (2 * rr = f[2] /\ q % 2 = 1) THEN 1 ELSE 0)
    IN  IF t = 10 THEN [whole |-> whole + 1, tenth |-> 0] ELSE [whole |-> whole, tenth |-> t]

ClaimedSize(n) ==
    LET k == UnitIndex(n, 0)
    IN  [num |-> OneDecimal(n, Pow1024(k)), unit |-> AllUnits[k + 1]]

-----------------------------------------------------------------------------
(* The claims.                                                             *)

\* the destination of download_file, and of the download of
\* download_and_extract
Dest == Resolve(dl.file_path)

\* the directory extract_zip extracts to for download_and_extract
DaeExtractionDir ==
    IF dae.extract_path # <<>> THEN Resolve(PathOf(dae.extract_path[1]))
    ELSE Resolve(Join(save_dir, PathOf(Stem(dae.zip_path[1]))))

\* C1: when download_and_extract has raised after a download that succeeded
\* and an extraction that failed, the downloaded archive is gone and so is
\* the extraction directory (a directory that was there before the session
\* is not held against the claim).
C1_RollbackAfterExtractFailure ==
    (dae.pc = "raised" /\ dae.zip_path # <<>> /\ dae.extract_dir = <<>>)
        => /\ ~ Exists(fs, Resolve(dae.zip_path[1]))
           /\ \/ ~ Exists(fs, DaeExtractionDir)
              \/ fs[DaeExtractionDir].tag = "old"

\* C2: when download_file has raised after a transport failure (in
\* requests.get, at the status check or in the stream), no file is at the
\* destination.
C2_NoFileAfterTransportFailure ==
    (dl.pc = "raised" /\ dl.fault # "none") => ~ Exists(fs, Dest)

C2_Witness ==
    /\ dl.pc = "raised" /\ dl.fault = "requests.Timeout"
    /\ dl.at = "stream" /\ dl.written >= 1

\* C3: when download_file, called with a destination that did not exist,
\* has raised, whatever the error, no file is at the destination.
C3_NoFileAfterAnyFailure ==
    (dl.pc = "raised" /\ ~ dl.found) => ~ Exists(fs, Dest)

\* C4: a file found at the destination makes download_file raise
\* FileExistsError with no request made and nothing written, and the file is
\* as it was, also after the rollback of download_and_extract.
C4_ExistingFileUntouched ==
    /\ (dl.pc \notin {"idle", "start"} /\ dl.found)
          => /\ dl.pc = "raised" /\ dl.exc.kind = "FileExistsError"
             /\ ~ dl.requested /\ ~ dl.opened
             /\ Exists(fs, Dest) /\ fs[Dest] = Disk({"archive", "tree"})[Dest]
    /\ (dae.pc \in {"handler", "raised"} /\ dae.zip_path = <<>>
        /\ FileExistsError_In(dae.exc))
          => LET a == Resolve(destination(dae.url, <<>>))
             IN  Exists(fs, a) /\ fs[a] = Disk({"archive", "tree"})[a]

C4_Witness ==
    /\ dae.pc = "raised" /\ dae.zip_path = <<>> /\ FileExistsError_In(dae.exc)
    /\ dae.url = <<"/", "f">> \o ZIP

\* C5: the error download_file raises after a transport failure is the one
\* of the failure's class: ConnectionError, TimeoutError, or Exception for
\* the rest, whatever the phase of the failure.
C5_ErrorKindByTransportClass ==
    (dl.pc = "raised" /\ dl.fault # "none")
        => dl.exc.kind = (CASE dl.fault = "requests.ConnectionError" -> "ConnectionError"
                            [] dl.fault = "requests.Timeout" -> "TimeoutError"
                            [] OTHER -> "Exception")

\* C6: the confirmation is asked exactly when the total size exceeds 1 GiB,
\* before the file is opened; an answer other than yes makes the call raise
\* DownloadCancelled with the file never created.
C6_SizeGate ==
    /\ (dl.pc \notin {"idle", "start", "get", "status", "size"} /\ dl.fault = "none")
          => (dl.prompted <=> dl.total_size > OneGiB)
    /\ (dl.pc = "raised" /\ dl.prompted /\ Lower(dl.answer) # <<"y">>)
          => (dl.exc.kind = "DownloadCancelled" /\ ~ dl.opened /\ ~ Exists(fs, Dest))

\* the directory a call of extract_zip extracts to
FrameDir(f) == Resolve(IF f.extract_arg # <<>> THEN f.extract_arg[1] ELSE f.extract_path)

\* where ZipFile.extract puts the entry of that name
EntryTarget(f, name) == Resolve(Join(f.extract_path, PathOf(name)))

\* the call has read the names of its archive and the validator has
\* accepted them all
Accepted(f) == f.listed /\ f.pc # "check" /\ Rejected(f.names) = <<>>

\* C7, as stated: a call of extract_zip on an archive with a rejected entry
\* ends with the ValueError that lists every rejected name, and has
\* extracted nothing.
C7_UnsafeArchiveRejected_Always ==
    \A k \in 1..Len(ex) :
        LET f == ex[k]
            a == Resolve(f.zip_path)
        IN  (f.pc \in {"raising", "returning"} /\ IsFile(fs, a) /\ fs[a].zip = "yes"
             /\ Rejected(fs[a].names) # <<>>)
                => /\ f.pc = "raising" /\ f.exc.kind = "ValueError"
                   /\ f.exc.paths = Rejected(fs[a].names)
                   /\ f.done = 0

\* C7, amended: once the destination directory is there (found or made), a
\* call of extract_zip on an archive with a rejected entry ends with the
\* ValueError that lists every rejected name, has extracted nothing, and a
\* directory it made is empty.
C7_UnsafeArchiveRejected ==
    \A k \in 1..Len(ex) :
        LET f == ex[k]
        IN  (f.listed /\ f.pc # "check" /\ Rejected(f.names) # <<>>)
                => /\ f.pc = "raising" /\ f.exc.kind = "ValueError"
                   /\ f.exc.paths = Rejected(f.names)
                   /\ f.done = 0
                   /\ f.made => RGlob(fs, FrameDir(f)) = {}

C7_Witness ==
    \E k \in 1..Len(ex) :
        /\ ex[k].pc = "raising" /\ ex[k].made
        /\ Len(ex[k].exc.paths) >= 2
        /\ \E i \in 1..Len(ex[k].names) : is_safe_path(ex[k].names[i])

\* C8, as stated: an accepted entry path joined under the extraction
\* directory is strictly inside it, and every file extract_zip has written,
\* at any level, is inside the top-level extraction directory.
C8_ExtractionStaysInside_Strictly ==
    /\ \A k \in 1..Len(ex) :
          Accepted(ex[k]) =>
             \A i \in 1..Len(ex[k].names) :
                StrictlyWithin(FrameDir(ex[k]), EntryTarget(ex[k], ex[k].names[i]))
    /\ (ex # <<>> /\ ex[1].pc \notin {"validate", "mkdir"}) =>
          /\ \A x \in DOMAIN fs :
                fs[x].tag = "member" => StrictlyWithin(FrameDir(ex[1]), x)
          /\ \A k \in 2..Len(ex) : StrictlyWithin(FrameDir(ex[1]), FrameDir(ex[k]))

\* C8, amended: an accepted entry path joined under the extraction
\* directory is inside it or is the directory itself (a path without a
\* named segment, such as "."), and every file extract_zip has written, at
\* any level, is strictly inside the top-level extraction directory.
C8_ExtractionStaysInside ==
    /\ \A k \in 1..Len(ex) :
          Accepted(ex[k]) =>
             \A i \in 1..Len(ex[k].names) :
                Within(FrameDir(ex[k]), EntryTarget(ex[k], ex[k].names[i]))
    /\ (ex # <<>> /\ ex[1].pc \notin {"validate", "mkdir"}) =>
          /\ \A x \in DOMAIN fs :
                fs[x].tag = "member" => StrictlyWithin(FrameDir(ex[1]), x)
          /\ \A k \in 2..Len(ex) : StrictlyWithin(FrameDir(ex[1]), FrameDir(ex[k]))

C8_Witness ==
    /\ Len(ex) >= 2 /\ ex[2].done >= 1
    /\ \E x \in DOMAIN fs : fs[x].tag = "member" /\ StrictlyWithin(FrameDir(ex[2]), x)

\* C9: the destination computed from the URL-derived filename lies inside
\* the session directory.
C9_DestinationInsideSession ==
    (pure.fn = "destination" /\ pure.done)
        => Within(Resolve(save_dir), Resolve(pure.out))

\* C10: the size is printed in the largest unit in which it is at least 1,
\* as the scaled value with one decimal place.
C10_HumanReadableSize ==
    (pure.fn = "humanize_size" /\ pure.done) => pure.out = ClaimedSize(pure.arg)

\* the entries of a list of names that are files, as paths relative to the
\* extraction directory
FileEntries(names) ==
    {PathOf(names[i]).segs : i \in {j \in 1..Len(names) : ~ EndsWith(names[j], <<"/">>)}}

\* a list of names without a nested archive
NoNested(names) == \A i \in 1..Len(names) : ~ EndsWith(Lower(names[i]), ZIP)

\* the extraction directory of the call was made by it
FreshDir == LET a == Resolve(dae.extract_dir[1])
            IN  Exists(fs, a) /\ fs[a].tag = "extract"

\* C11: on success, for an archive without nested archives extracted to a
\* directory that was not there, the manifest holds exactly the file entries
\* of the archive, by their paths relative to the extraction directory,
\* each once and in ascending order of the paths.
C11_ManifestMatchesArchive ==
    (dae.pc = "returned" /\ NoNested(dae.names) /\ FreshDir)
        => LET m == dae.formatted_files
           IN  /\ {m[i].relative_path : i \in 1..Len(m)} = FileEntries(dae.names)
               /\ \A i, j \in 1..Len(m) :
                     i < j => PathLess(m[i].relative_path, m[j].relative_path)

C11_Witness ==
    /\ dae.pc = "returned" /\ NoNested(dae.names) /\ FreshDir
    /\ Len(dae.formatted_files) = 2
    /\ dae.names[1] = <<"d", "/", "b">>

\* the file is an archive by its name
ArchiveName(x) == x # <<>> /\ EndsWith(Lower(x[Len(x)]), ZIP)

\* C12: with keep_zip false, when a call of extract_zip is about to return,
\* its archive is gone, every nested archive among its entries has a
\* directory named after its base name, and nothing that extract_zip wrote
\* below the directory of the call is an archive file.
C12_NoArchiveLeftAfterExtract ==
    \A k \in 1..Len(ex) :
        LET f == ex[k]
        IN  (~ keep_zip /\ f.pc = "returning")
               => /\ ~ Exists(fs, Resolve(f.zip_path))
                  /\ \A i \in 1..Len(f.names) :
                        EndsWith(Lower(f.names[i]), ZIP) =>
                          /\ IsDir(fs, Resolve(Join(f.extract_path,
                                                    PathOf(Stem(PathOf(f.names[i]))))))
                          /\ ~ Exists(fs, EntryTarget(f, f.names[i]))
                  /\ \A x \in DOMAIN fs :
                        (StrictlyWithin(FrameDir(f), x) /\ fs[x].tag = "member"
                         /\ ArchiveName(x))
                            => fs[x].kind = "dir"

\* a two-level nest is about to be returned from
C12_Witness ==
    /\ ~ keep_zip /\ Len(ex) = 1 /\ ex[1].pc = "returning"
    /\ \E i \in 1..Len(ex[1].names) :
          /\ EndsWith(Lower(ex[1].names[i]), ZIP)
          /\ \E x \in DOMAIN fs :
                /\ fs[x].kind = "dir"
                /\ StrictlyWithin(Resolve(Join(ex[1].extract_path,
                                       PathOf(Stem(PathOf(ex[1].names[i]))))), x)

\* C13: no step of extract_zip replaces a file that was there before the
\* call (left by the client or written by the download) with a file of the
\* archive.
C13_NoOverwriteByExtraction ==
    [][ex # <<>> =>
         \A x \in DOMAIN fs \cap DOMAIN fs' :
            (fs[x].kind = "file" /\ fs[x].tag \in {"old", "download"})
                => fs'[x].tag # "member"]_vars

\* the segments of a path string: what lies between its slashes
Segments(path) == SplitOn(path, "/")

\* a segment starts with a backslash, the path starts with a slash, or a
\* segment contains the parent-directory marker or a colon
StatedUnsafe(path) ==
    \/ StartsWith(path, <<"/">>)
    \/ \E i \in 1..Len(Segments(path)) :
          LET seg == Segments(path)[i]
          IN  \/ StartsWith(seg, <<"\\">>)
              \/ \E j \in 1..(Len(seg) - 1) : seg[j] = "." /\ seg[j + 1] = "."
              \/ \E j \in 1..Len(seg) : seg[j] = ":"

\* C14: the validator answers unsafe exactly for the paths with a segment
\* that starts with a backslash or a slash, or contains ".." or a colon.
C14_ValidatorExact ==
    (pure.fn = "is_safe_path" /\ pure.done) => (pure.out <=> ~ StatedUnsafe(pure.arg))

C14_Witness ==
    /\ pure.fn = "is_safe_path" /\ pure.done
    /\ pure.arg = <<"a", "/", ".", ".">> /\ pure.out = FALSE

\* C15: a failure of a step of download_and_extract is caught by its
\* handler; the call raises only from the handler, and then the error is an
\* Exception whose cause is the error caught, and the archive and the
\* extraction directory that the call knows of are gone.
C15_FailureWrappedAfterRollback ==
    [][/\ (dae.pc \in {"download", "wait", "list"}
           /\ dae'.pc \notin {"download", "extract", "wait", "list", "returned"})
              => (dae'.pc = "handler" /\ dae'.exc # NoExc)
       /\ (dae.pc # "raised" /\ dae'.pc = "raised")
              => /\ dae.pc = "handler"
                 /\ dae'.exc.kind = "Exception"
                 /\ dae'.exc.cause = dae.exc.kind
                 /\ dae.zip_path # <<>> => ~ Exists(fs', Resolve(dae.zip_path[1]))
                 /\ dae.extract_dir # <<>> => ~ Exists(fs', Resolve(dae.extract_dir[1]))
      ]_vars

\* the manifest could not be built, and the call has raised
C15_Witness ==
    /\ dae.pc = "raised" /\ dae.exc.kind = "Exception" /\ dae.exc.cause = "OSError"
    /\ dae.zip_path # <<>> /\ dae.extract_dir # <<>>
    /\ ~ Exists(fs, Resolve(dae.extract_dir[1]))

\* C16: download_file called with a chunk size that is not positive never
\* opens the destination file and never returns; left to itself (nothing
\* found at the destination, no transport failure, no prompt) it raises
\* ValueError.
C16_ChunkSizeRejected ==
    dl.chunk_size <= 0
        => /\ ~ dl.opened
           /\ dl.pc # "returned"
           /\ (dl.pc = "raised" /\ ~ dl.found /\ dl.fault = "none" /\ ~ dl.prompted)
                 => dl.exc.kind = "ValueError"

\* C17: when download_file has returned or raised after requests.get gave a
\* response, the response has been closed; and the closing raises nothing
\* of its own when there was no response or when the prompt has run.
C17_ResponseReleased ==
    dl.pc \in {"returned", "raised"}
        => /\ (dl.at # "get" /\ dl.requested) => dl.closed
           /\ dl.exc.kind # "UnboundLocalError"
           /\ dl.prompted => dl.exc.kind # "AttributeError"

\* C18: a step that writes an entry of an archive to the disk is taken by
\* the call of extract_zip that has read the names of that archive, with
\* none of them rejected by the validator; so it is for every nested call.
C18_CheckBeforeExtract ==
    [][(\E x \in DOMAIN fs' :
           /\ fs'[x].tag = "member"
           /\ x \notin DOMAIN fs \/ fs[x].tag # "member")
        => /\ ex # <<>> /\ Top.pc = "extract" /\ Top.listed
           /\ Top.names = fs[Resolve(Top.zip_path)].names
           /\ \A i \in 1..Len(Top.names) : is_safe_path(Top.names[i])
      ]_vars

\* a nested call has written an entry of an archive of several
C18_Witness ==
    /\ Len(ex) = 2 /\ ex[2].done >= 1 /\ Len(ex[2].names) >= 2
    /\ ex[2].names[1] # ex[2].names[2]

\* C19: a call that waits for the extraction of a nested archive does
\* nothing until that extraction has ended; its next step then leaves the
\* nested archive file absent when keep_zip is false and present when it is
\* true, and only after that step does the call extract its next entry or
\* let the failure go on.
C19_NestedArchiveReleased ==
    [][/\ \A k \in 1..Len(ex) :
            (ex[k].pc = "wait" /\ (Len(ex') < k \/ ex'[k] # ex[k]))
               => (Len(ex') = k /\ ex'[k].pc = "finally"
                   /\ ex'[k].i = ex[k].i /\ ex'[k].done = ex[k].done)
       /\ (ex # <<>> /\ Top.pc = "finally" /\ ex' # ex)
            => LET a == Resolve(Top.nested_path)
                   t == ex'[Len(ex)]
               IN  /\ Len(ex') = Len(ex)
                   /\ keep_zip => IsFile(fs', a)
                   /\ ~ keep_zip => ~ Exists(fs', a)
                   /\ IF Top.exc = NoExc
                      THEN t.pc = "extract" /\ t.i = Top.i + 1
                      ELSE t.pc = "raising" /\ t.exc = Top.exc
      ]_vars

\* the nested archive had an entry the validator rejects, and is gone
C19_Witness ==
    /\ ~ keep_zip /\ ex # <<>> /\ Top.pc = "raising" /\ Top.exc.paths # <<>>
    /\ Top.listed /\ Rejected(Top.names) = <<>>
    /\ EndsWith(Lower(Top.names[Top.i]), ZIP)
    /\ ~ Exists(fs, Resolve(Top.nested_path))

\* the archive files that lie in the session directory
SessionArchives(f) ==
    {x \in DOMAIN f : Parent(x) = Resolve(save_dir) /\ IsFile(f, x) /\ ArchiveName(x)}

\* C20: teardown returns; with keep_zip true it leaves the disk as it was,
\* with keep_zip false it leaves no archive file in the session directory;
\* a second teardown changes nothing.
C20_Teardown ==
    [][outcome'.op = "__exit__"
        => /\ outcome'.status = "returned"
           /\ keep_zip => fs' = fs
           /\ ~ keep_zip => SessionArchives(fs') = {}
           /\ outcome.op = "__exit__" => fs' = fs
      ]_vars

====
